---- MODULE Spec2Model ----
(***************************************************************************)
(* Model of RecommendationSystem (src/recommendation_engine.py): the       *)
(* catalog and purchase log loaded by load_data, the user x product        *)
(* rating matrix it pivots, and the four read operations                   *)
(* find_similar_users, get_recommendations, get_popular_products and       *)
(* get_user_purchases.                                                     *)
(*                                                                         *)
(* Floating-point values are modelled exactly: a mean is a reduced         *)
(* fraction [num, den], and two cosine similarities are compared by        *)
(* cross-multiplying their squares.                                        *)
(***************************************************************************)
EXTENDS Integers, Sequences, FiniteSets

\* ------------------------------------------------------------------ bounds
MaxUser == 3
MaxItem == 3
MaxLog == 2
MaxCount == 2
MaxCrowd == 7

\* Ratings run from MinRating to MaxRating (generate_sample_data).
MinRating == 1
MaxRating == 5

\* Default of num_similar (find_similar_users), the K get_recommendations uses.
DefaultNumSimilar == 5

Users == 1..MaxUser
Items == 1..MaxItem
\* the lowest and the highest rating
Ratings == {MinRating, MaxRating}
\* count / K arguments offered to the read operations: -1, 0 and the positive
\* ones up to MaxCount
Counts == (0 - 1)..MaxCount

VARIABLES
    products_csv,      \* data/products.csv: the product_id of each of its rows
    purchases_csv,     \* data/purchases.csv: its rows, in file order
    loaded,            \* FALSE while the three fields are still None
    products_df,       \* the catalog: the product_id column of products.csv
    purchases_df,      \* the purchase log: rows of purchases.csv, in file order
    user_item_matrix,  \* [user_id -> [product_id -> mean rating, 0 when absent]]
    ret                \* the call that has just returned, and what it returned

vars == <<products_csv, purchases_csv, loaded, products_df, purchases_df, user_item_matrix, ret>>

\* ------------------------------------------------------------- arithmetic
RECURSIVE GCD(_, _)
GCD(a, b) == IF b = 0 THEN a ELSE GCD(b, a % b)

LCM(a, b) == (a * b) \div GCD(a, b)

\* A float that is the quotient of two small integers: the reduced fraction.
Frac(n, d) == [num |-> n \div GCD(n, d), den |-> d \div GCD(n, d)]

Zero == [num |-> 0, den |-> 1]

FracLess(x, y) == x.num * y.den < y.num * x.den

RECURSIVE LcmOfSet(_)
LcmOfSet(S) ==
    IF S = {} THEN 1
    ELSE LET x == CHOOSE y \in S : TRUE IN LCM(x, LcmOfSet(S \ {x}))

\* The elements of a set of integers in ascending order.
RECURSIVE Ascending(_)
Ascending(S) ==
    IF S = {} THEN <<>>
    ELSE LET m == CHOOSE x \in S : \A y \in S : x <= y
         IN  <<m>> \o Ascending(S \ {m})

Range(s) == {s[k] : k \in DOMAIN s}

\* Where a slice that stops at `stop` ends in a sequence of n entries.
SliceStop(stop, n) ==
    IF stop < 0 THEN (IF stop + n < 0 THEN 0 ELSE stop + n)
    ELSE IF stop > n THEN n ELSE stop

\* s[start:stop] of Python, for start >= 0 and any integer stop.
PySlice(s, start, stop) ==
    LET hi == SliceStop(stop, Len(s))
    IN  IF start >= hi THEN <<>> ELSE SubSeq(s, start + 1, hi)

\* DataFrame.head(n): the first n rows, or all but the last -n when n < 0.
DfHead(s, n) == PySlice(s, 0, n)

\* ----------------------------------------------------------------- inputs
Row(u, i, r) == [user_id |-> u, product_id |-> i, rating |-> r]

AllRows == {Row(u, i, r) : u \in Users, i \in Items, r \in Ratings}

KeyLeq(a, b) ==
    \/ a.user_id < b.user_id
    \/ a.user_id = b.user_id /\ a.product_id <= b.product_id

\* purchases.csv files offered to load_data: 1..MaxLog rows, written user by
\* user as generate_sample_data writes them (ascending user_id, and here
\* ascending product_id within a user); a (user, product) pair may repeat,
\* with its ratings in any order.
RECURSIVE LogsOfLen(_)
LogsOfLen(n) ==
    IF n = 0 THEN {<<>>}
    ELSE UNION {{Append(l, r) : r \in {x \in AllRows : l = <<>> \/ KeyLeq(l[Len(l)], x)}} :
                   l \in LogsOfLen(n - 1)}

Logs == UNION {LogsOfLen(n) : n \in 1..MaxLog}

\* Longer files, of MaxLog + 1 and of MaxCrowd rows, the latter with more
\* users than the DefaultNumSimilar nearest and the target: each of the users
\* 1..n bought one product and rated it MaxRating, all of them product 1 but
\* one user (the first or the last), who bought product 2.
CrowdLog(n, odd) ==
    [u \in 1..n |-> Row(u, IF u = odd THEN 2 ELSE 1, MaxRating)]

CrowdLogs ==
    UNION {{CrowdLog(n, odd) : odd \in {1, n}} : n \in {MaxLog + 1, MaxCrowd}}

\* The purchases.csv a later run of the generator leaves in place of the
\* first one.
Regenerated == {CrowdLog(MaxLog + 1, 1)}

\* products.csv file offered to load_data: product_id 1..MaxItem-1, numbered
\* as generate_sample_data numbers them. Product MaxItem, which purchases.csv
\* may name, is not in the catalog; a purchases.csv that never names it is
\* covered by the catalog.
Catalogs == {1..(MaxItem - 1)}

\* ------------------------------------------------------------- load_data
RatingsOf(log, u, i) ==
    SelectSeq(log, LAMBDA row : row.user_id = u /\ row.product_id = i)

RECURSIVE RatingSum(_)
RatingSum(rows) ==
    IF rows = <<>> THEN 0 ELSE Head(rows).rating + RatingSum(Tail(rows))

\* pivot_table with aggfunc='last': the last rating of a cell wins
PivotAgg_Last(rows) == Frac(rows[Len(rows)].rating, 1)

\* aggfunc of pivot_table (its default, 'mean') over the ratings of one cell.
PivotAgg(rows) == Frac(RatingSum(rows), Len(rows))

\* purchases_df.pivot_table(index='user_id', columns='product_id',
\*                          values='rating', fill_value=0)
PivotTable(log) ==
    LET index   == {log[k].user_id : k \in DOMAIN log}
        columns == {log[k].product_id : k \in DOMAIN log}
    IN  [u \in index |->
            [i \in columns |->
                IF RatingsOf(log, u, i) = <<>> THEN Zero
                ELSE PivotAgg(RatingsOf(log, u, i))]]

\* ---------------------------------------------------- find_similar_users
Columns(m) == UNION {DOMAIN m[v] : v \in DOMAIN m}

\* The matrix as integers: every cell times the common denominator of the
\* cells. Cosine similarity does not change when the whole matrix is scaled.
ScaledMatrix(m) ==
    CHOOSE sm \in
        {[u \in DOMAIN m |->
            [i \in Columns(m) |-> m[u][i].num * (scale \div m[u][i].den)]] :
         scale \in {LcmOfSet({m[u][i].den : u \in DOMAIN m, i \in Columns(m)})}} : TRUE

RECURSIVE DotOver(_, _, _)
DotOver(x, y, cols) ==
    IF cols = {} THEN 0
    ELSE LET i == CHOOSE j \in cols : TRUE
         IN  x[i] * y[i] + DotOver(x, y, cols \ {i})

Dot(x, y) == DotOver(x, y, DOMAIN x)

\* The squared norm a row is divided by; sklearn's normalize leaves a zero
\* row as it is (its norm taken as 1).
Norm2(x) == IF Dot(x, x) = 0 THEN 1 ELSE Dot(x, x)

\* cosine_similarity(matrix)[u][v] = Dot(u, v) / sqrt(Norm2(u) * Norm2(v)),
\* kept as the dot product and the product of the squared norms; ratings are
\* >= 0 and so is the dot product.
CosineSimilarity(m) ==
    CHOOSE sims \in
        {[u \in DOMAIN m |->
            [v \in DOMAIN m |->
                [dot |-> Dot(sm[u], sm[v]), n2 |-> Norm2(sm[u]) * Norm2(sm[v])]]] :
         sm \in {ScaledMatrix(m)}} : TRUE

SimLess(a, b) == a.dot * a.dot * b.n2 < b.dot * b.dot * a.n2

\* similarity_df[user_id]: one entry per user of the matrix
SimilarityColumn(m, user_id) ==
    UNION {{[user_id |-> v, sim |-> sims[user_id][v]] : v \in DOMAIN m} :
              sims \in {CosineSimilarity(m)}}

\* The first len index labels of column.sort_values(ascending=False): every
\* order of non-increasing similarity. The default sort (kind='quicksort') is
\* not stable, so users of equal similarity may come out in any order.
RECURSIVE SortedHeads(_, _)
SortedHeads(column, len) ==
    IF len = 0 \/ column = {} THEN {<<>>}
    ELSE UNION {{<<a.user_id>> \o p : p \in SortedHeads(column \ {a}, len - 1)} :
                   a \in {x \in column : \A y \in column : ~SimLess(x.sim, y.sim)}}

\* The lists find_similar_users(user_id, num_similar) can return:
\* similarity_df[user_id].sort_values(ascending=False)[1:num_similar+1]
FindSimilarUsers(m, user_id, num_similar) ==
    IF user_id \notin DOMAIN m THEN {<<>>}
    ELSE LET stop == SliceStop(num_similar + 1, Cardinality(DOMAIN m))
         IN  UNION {{PySlice(head, 1, stop) : head \in SortedHeads(column, stop)} :
                       column \in {SimilarityColumn(m, user_id)}}

\* -------------------------------------------------- get_popular_products
RowsOf(log, i) == SelectSeq(log, LAMBDA row : row.product_id = i)

\* groupby('product_id').agg({'rating': 'mean', 'user_id': 'count'}): one row
\* per product, in ascending product_id order.
AggRow(i, rows) ==
    [product_id |-> i, rating |-> Frac(RatingSum(rows), Len(rows)), count |-> Len(rows)]

GroupRows(log, ids) == [k \in DOMAIN ids |-> AggRow(ids[k], RowsOf(log, ids[k]))]

GroupByProduct(log) ==
    GroupRows(log, Ascending({log[k].product_id : k \in DOMAIN log}))

\* a sorts strictly before b under by=['rating', 'count'], ascending=False
RankedBefore(a, b) ==
    \/ FracLess(b.rating, a.rating)
    \/ a.rating = b.rating /\ a.count > b.count

\* The place of rows[k] after the sort: behind every row that sorts strictly
\* before it and behind the earlier rows it ties with, the multi-column
\* sort_values being a stable (lexsort) sort.
SortPosition(rows, k) ==
    1 + Cardinality({j \in DOMAIN rows :
                        \/ RankedBefore(rows[j], rows[k])
                        \/ j < k /\ ~RankedBefore(rows[k], rows[j])})

SortValues(rows) ==
    [p \in DOMAIN rows |-> rows[CHOOSE k \in DOMAIN rows : SortPosition(rows, k) = p]]

\* a left join: every row kept, in or out of the catalog
MergeProducts_KeepAll(rows, products) == rows

\* rows.merge(products_df, left_index=True, right_on='product_id'): an inner
\* join, in the order of the left rows; a row with no product drops out.
MergeProducts(rows, products) ==
    SelectSeq(rows, LAMBDA row : row.product_id \in products)

GetPopularProducts(products, log, num_products) ==
    CHOOSE result \in
        {MergeProducts(DfHead(SortValues(popular), num_products), products) :
            popular \in {GroupByProduct(log)}} : TRUE

\* --------------------------------------------------- get_recommendations
UserPurchases(log, user_id) ==
    {log[k].product_id : k \in {j \in DOMAIN log : log[j].user_id = user_id}}

SimilarPurchases(log, user_id, similar_users) ==
    SelectSeq(log, LAMBDA row :
        /\ row.user_id \in Range(similar_users)
        /\ row.product_id \notin UserPurchases(log, user_id))

\* get_recommendations without its early return to get_popular_products
GetRecommendations_NoFallback(products, log, user_id, similar_users, num_recommendations) ==
    MergeProducts(
        DfHead(SortValues(GroupByProduct(SimilarPurchases(log, user_id, similar_users))),
               num_recommendations),
        products)

\* get_recommendations falling back to get_popular_products also when the
\* similar users leave no candidate
GetRecommendations_FallbackWhenEmpty(products, log, user_id, similar_users, n) ==
    IF similar_users = <<>> \/ SimilarPurchases(log, user_id, similar_users) = <<>>
    THEN GetPopularProducts(products, log, n)
    ELSE MergeProducts(
            DfHead(SortValues(GroupByProduct(SimilarPurchases(log, user_id, similar_users))), n),
            products)

\* get_recommendations once find_similar_users has returned similar_users
GetRecommendations(products, log, user_id, similar_users, num_recommendations) ==
    IF similar_users = <<>> THEN GetPopularProducts(products, log, num_recommendations)
    ELSE CHOOSE result \in
            {MergeProducts(DfHead(SortValues(recommendations), num_recommendations), products) :
                recommendations \in
                    {GroupByProduct(SimilarPurchases(log, user_id, similar_users))}} : TRUE

\* ---------------------------------------------------- get_user_purchases
GetUserPurchases(products, log, user_id) ==
    LET user_data == SelectSeq(log, LAMBDA row : row.user_id = user_id)
        merged    == SelectSeq(user_data, LAMBDA row : row.product_id \in products)
    IN  [k \in DOMAIN merged |->
            [product_id |-> merged[k].product_id, rating |-> merged[k].rating]]

\* ------------------------------------------------------------ the system
NoRet ==
    [op |-> "none", user_id |-> 0, n |-> 0, users |-> <<>>, path |-> "none",
     rows |-> <<>>, raised |-> "none"]

Engine == <<loaded, products_df, purchases_df, user_item_matrix>>
Files  == <<products_csv, purchases_csv>>

\* The caller is between two calls: the last result has been handed over.
Idle == ret.op = "none"

\* A fresh RecommendationSystem() beside the two CSV files under data/.
Init ==
    /\ products_csv \in Catalogs
    /\ purchases_csv \in Logs \cup CrowdLogs
    /\ loaded = FALSE
    /\ products_df = {}
    /\ purchases_df = <<>>
    /\ user_item_matrix = <<>>
    /\ ret = NoRet

load_data ==
    /\ Idle
    /\ loaded' = TRUE
    /\ products_df' = products_csv
    /\ purchases_df' = purchases_csv
    /\ user_item_matrix' = PivotTable(purchases_csv)
    /\ ret' = [NoRet EXCEPT !.op = "load_data"]
    /\ UNCHANGED Files

\* data_generator run again: both files under data/ are written anew, whether
\* or not the engine has loaded the old ones.
save_data_to_csv ==
    /\ Idle
    /\ products_csv' \in Catalogs
    /\ purchases_csv' \in Regenerated
    /\ UNCHANGED <<Engine, ret>>

\* find_similar_users taking the target out of the matrix in place before it
\* sorts the column
find_similar_users_DropSelf(user_id, num_similar) ==
    /\ Idle
    /\ loaded
    /\ \E similar_users \in FindSimilarUsers(user_item_matrix, user_id, num_similar) :
          ret' = [NoRet EXCEPT !.op = "find_similar_users", !.user_id = user_id,
                               !.n = num_similar, !.users = similar_users]
    /\ user_item_matrix' = [u \in DOMAIN user_item_matrix \ {user_id} |-> user_item_matrix[u]]
    /\ UNCHANGED <<loaded, products_df, purchases_df, Files>>

find_similar_users(user_id, num_similar) ==
    /\ Idle
    /\ loaded
    /\ \E similar_users \in FindSimilarUsers(user_item_matrix, user_id, num_similar) :
          ret' = [NoRet EXCEPT !.op = "find_similar_users", !.user_id = user_id,
                               !.n = num_similar, !.users = similar_users]
    /\ UNCHANGED <<Engine, Files>>

\* The lists find_similar_users(user_id) can hand back inside
\* get_recommendations, each in ascending order: the rest of the method only
\* asks whether the list is empty and which users are in it (isin).
SimilarUsersOf(user_id) ==
    {Ascending(Range(l)) :
        l \in FindSimilarUsers(user_item_matrix, user_id, DefaultNumSimilar)}

\* similar_users is what find_similar_users(user_id) handed back on line 87,
\* one of SimilarUsersOf(user_id); ret.users keeps it, and ret.path tells
\* which return statement was taken.
get_recommendations(user_id, num_recommendations, similar_users) ==
    /\ Idle
    /\ loaded
    /\ ret' = [NoRet EXCEPT
                 !.op = "get_recommendations", !.user_id = user_id,
                 !.n = num_recommendations,
                 !.users = similar_users,
                 !.path = IF similar_users = <<>> THEN "FALLBACK" ELSE "KNOWN",
                 !.rows = GetRecommendations(products_df, purchases_df, user_id,
                                             similar_users, num_recommendations)]
    /\ UNCHANGED <<Engine, Files>>

get_popular_products(num_products) ==
    /\ Idle
    /\ loaded
    /\ ret' = [NoRet EXCEPT
                 !.op = "get_popular_products", !.n = num_products,
                 !.rows = GetPopularProducts(products_df, purchases_df, num_products)]
    /\ UNCHANGED <<Engine, Files>>

get_user_purchases(user_id) ==
    /\ Idle
    /\ loaded
    /\ ret' = [NoRet EXCEPT
                 !.op = "get_user_purchases", !.user_id = user_id,
                 !.rows = GetUserPurchases(products_df, purchases_df, user_id)]
    /\ UNCHANGED <<Engine, Files>>

\* The caller takes the returned value; the next call can start.
Return ==
    /\ ~Idle
    /\ ret' = NoRet
    /\ UNCHANGED <<Engine, Files>>

\* user_id arguments offered to the read operations: the users of the small
\* files (one of them may have no purchase) and every user of the matrix
Callers == Users \cup DOMAIN user_item_matrix

Next ==
    \/ load_data
    \/ save_data_to_csv
    \/ \E u \in Callers, k \in Counts : find_similar_users(u, k)
    \/ Idle /\ \E u \in Callers : \E similar_users \in SimilarUsersOf(u) :
                  \E n \in Counts : get_recommendations(u, n, similar_users)
    \/ \E n \in Counts : get_popular_products(n)
    \/ \E u \in Callers : get_user_purchases(u)
    \/ Return

Spec == Init /\ [][Next]_vars

\* ------------------------------------------------------------------ claims
IsCall(op) == ret.op = op

\* user_ids with at least one interaction in the loaded log
LogUsers == {purchases_df[k].user_id : k \in DOMAIN purchases_df}

\* product_ids with at least one interaction in the loaded log
LogItems == {purchases_df[k].product_id : k \in DOMAIN purchases_df}

\* the item set of user_history(u)
History(u) == {purchases_df[k].product_id :
                  k \in {j \in DOMAIN purchases_df : purchases_df[j].user_id = u}}

RowItems(rows) == {rows[k].product_id : k \in DOMAIN rows}

\* C1: recommend(u, N), N > 0, never returns an item u has an interaction
\* with, whichever path it takes (the popularity fallback included).
C1_NeverRecommendsPurchased ==
    (IsCall("get_recommendations") /\ ret.n > 0)
        => RowItems(ret.rows) \cap History(ret.user_id) = {}

\* C2: for a user with no interaction in the log and N > 0, recommend(u, N)
\* raises nothing and returns the very list popular(N) returns: same items,
\* same order, same mean ratings and support counts.
C2_UnknownUserGetsPopular ==
    (IsCall("get_recommendations") /\ ret.n > 0 /\ ret.user_id \notin LogUsers)
        => /\ ret.raised = "none"
           /\ ret.rows = GetPopularProducts(products_df, purchases_df, ret.n)

C2_Witness ==
    /\ IsCall("get_recommendations")
    /\ ret.user_id \notin LogUsers
    /\ ret.n = 2
    /\ Len(ret.rows) = 2
    /\ ret.rows[1].rating # ret.rows[2].rating

\* C4: recommend(u, count) and popular(count) with count <= 0, and
\* neighbors(u, K) with K <= 0, abort with InvalidArgumentError and return
\* no list, for known and unknown users alike.
C4_NonPositiveCountRaises ==
    ( /\ ret.op \in {"get_recommendations", "get_popular_products", "find_similar_users"}
      /\ ret.n <= 0 )
        => /\ ret.raised = "InvalidArgumentError"
           /\ ret.rows = <<>>
           /\ ret.users = <<>>

\* C5: an interaction whose item is not in the catalog makes load fail with
\* DataIntegrityError; it is never accepted into the store or the matrix,
\* and its item is never silently left out of a later result.
C5_UnknownItemRejected ==
    /\ (IsCall("load_data") /\ ~(RowItems(purchases_csv) \subseteq products_csv))
          => ret.raised = "DataIntegrityError"
    /\ loaded => LogItems \subseteq products_df
    /\ loaded => Columns(user_item_matrix) \subseteq products_df
    /\ (IsCall("get_popular_products") /\ ret.n >= Cardinality(LogItems))
          => RowItems(ret.rows) = LogItems

\* similarity(u, v) of the loaded matrix
Sim(u, v) == CosineSimilarity(user_item_matrix)[u][v]

\* C6: for a user u of the matrix and K > 0, similarity(u, u) is the largest
\* of u's similarity scores and u is not among neighbors(u, K), also when
\* another user's vector is proportional to u's.
C6_SelfIsMaxAndExcluded ==
    (IsCall("find_similar_users") /\ ret.n > 0 /\ ret.user_id \in DOMAIN user_item_matrix)
        => /\ \A v \in DOMAIN user_item_matrix :
                ~SimLess(Sim(ret.user_id, ret.user_id), Sim(ret.user_id, v))
           /\ ret.user_id \notin Range(ret.users)

Min(a, b) == IF a < b THEN a ELSE b

\* C7: for a user u of the matrix and K > 0, neighbors(u, K) lists
\* min(K, number of other users) distinct users in descending similarity to
\* u, equal similarities in ascending user_id order, and no other user left
\* out is strictly more similar to u than a listed one.
C7_NeighborsRanked ==
    (IsCall("find_similar_users") /\ ret.n > 0 /\ ret.user_id \in DOMAIN user_item_matrix)
        => LET u      == ret.user_id
               nb     == ret.users
               others == DOMAIN user_item_matrix \ {u}
           IN  /\ Len(nb) = Min(ret.n, Cardinality(others))
               /\ \A j, k \in DOMAIN nb : j # k => nb[j] # nb[k]
               /\ \A k \in 1..(Len(nb) - 1) :
                     /\ ~SimLess(Sim(u, nb[k]), Sim(u, nb[k + 1]))
                     /\ ~SimLess(Sim(u, nb[k + 1]), Sim(u, nb[k])) => nb[k] < nb[k + 1]
               /\ \A v \in others \ Range(nb) : \A k \in DOMAIN nb :
                     ~SimLess(Sim(u, nb[k]), Sim(u, v))

\* a ranks before b: higher mean rating, then higher support count, then
\* lower item_id
Precedes(a, b) ==
    \/ FracLess(b.rating, a.rating)
    \/ a.rating = b.rating /\ a.count > b.count
    \/ a.rating = b.rating /\ a.count = b.count /\ a.product_id < b.product_id

\* The candidates behind the list in ret, one {item, mean, support} each.
\* KNOWN path: the interactions of the users in ret.users on items the target
\* user has no interaction with. Fallback and popular(N): the whole log.
Aggregate(rows) ==
    {[product_id |-> i,
      rating     |-> Frac(RatingSum(RowsOf(rows, i)), Len(RowsOf(rows, i))),
      count      |-> Len(RowsOf(rows, i))] : i \in RowItems(rows)}

Candidates ==
    IF ret.path = "KNOWN"
    THEN Aggregate(SelectSeq(purchases_df, LAMBDA row :
                      /\ row.user_id \in Range(ret.users)
                      /\ row.product_id \notin History(ret.user_id)))
    ELSE Aggregate(purchases_df)

\* the first n of a candidate set in rank order
TopN(cands, n) == {c \in cands : Cardinality({d \in cands : Precedes(d, c)}) < n}

IsRanking == ret.op \in {"get_recommendations", "get_popular_products"}

\* C8: in the lists of recommend(u, N) and popular(N), N > 0, each entry
\* ranks before the next (mean rating descending, then support count
\* descending, then item_id ascending), and the entries returned are the
\* first N of the full candidate set in that order.
C8_RankedFirstN ==
    (IsRanking /\ ret.n > 0)
        => /\ \A k \in 1..(Len(ret.rows) - 1) : Precedes(ret.rows[k], ret.rows[k + 1])
           /\ Range(ret.rows) = TopN(Candidates, ret.n)

\* items rated by some user other than u that u has no interaction with
Eligible(u) ==
    {purchases_df[k].product_id :
        k \in {j \in DOMAIN purchases_df : purchases_df[j].user_id # u}} \ History(u)

\* C3 as claimed, for the logs whose items are all in the catalog:
\* recommend(u, N), N > 0, has at most N entries, and exactly N whenever at
\* least N eligible candidates exist.
C3_FullWheneverEligible ==
    (IsCall("get_recommendations") /\ ret.n > 0 /\ LogItems \subseteq products_df)
        => /\ Len(ret.rows) <= ret.n
           /\ Cardinality(Eligible(ret.user_id)) >= ret.n => Len(ret.rows) = ret.n

\* C3 as amended: recommend(u, N), N > 0, has at most N entries: as many as
\* there are catalog items among the first N candidates in rank order, the
\* candidates being those of the users find_similar_users returned (of the
\* whole log on the fallback path).
C3_LengthOfRecommendations ==
    (IsCall("get_recommendations") /\ ret.n > 0)
        => /\ Len(ret.rows) <= ret.n
           /\ Len(ret.rows) =
                Cardinality({c \in TopN(Candidates, ret.n) : c.product_id \in products_df})

\* a known user whose DefaultNumSimilar nearest users leave out the one user
\* who rated an item new to the target: an eligible candidate, and no entry
C3_Witness ==
    /\ IsCall("get_recommendations")
    /\ ret.n = 1
    /\ ret.path = "KNOWN"
    /\ LogItems \subseteq products_df
    /\ Eligible(ret.user_id) # {}
    /\ ret.rows = <<>>

\* the candidates the users in ret.users leave once the target's own items
\* are filtered out
NeighborCandidates ==
    Aggregate(SelectSeq(purchases_df, LAMBDA row :
                 /\ row.user_id \in Range(ret.users)
                 /\ row.product_id \notin History(ret.user_id)))

\* C9 as claimed: recommend(u, N), N > 0, ends RANKED through KNOWN or
\* FALLBACK, and a known user whose neighbors leave zero candidates after
\* filtering takes FALLBACK and gets popular(N), not an empty list.
C9_NoCandidatesFallsBack ==
    (IsCall("get_recommendations") /\ ret.n > 0)
        => /\ ret.path \in {"KNOWN", "FALLBACK"}
           /\ NeighborCandidates = {}
                => /\ ret.path = "FALLBACK"
                   /\ ret.rows = GetPopularProducts(products_df, purchases_df, ret.n)

\* C9 as amended: recommend(u, N), N > 0, ends RANKED through KNOWN or
\* FALLBACK; it takes FALLBACK, and returns popular(N), exactly when
\* find_similar_users(u) is empty (u is not in the matrix or is its only
\* user); a known user whose neighbors leave zero candidates stays on KNOWN
\* and gets an empty list.
C9_FallbackOnlyWithoutNeighbors ==
    (IsCall("get_recommendations") /\ ret.n > 0)
        => /\ ret.path \in {"KNOWN", "FALLBACK"}
           /\ ret.path = "FALLBACK"
                <=> \/ ret.user_id \notin DOMAIN user_item_matrix
                    \/ DOMAIN user_item_matrix = {ret.user_id}
           /\ ret.path = "FALLBACK"
                => ret.rows = GetPopularProducts(products_df, purchases_df, ret.n)
           /\ (ret.path = "KNOWN" /\ NeighborCandidates = {}) => ret.rows = <<>>

C9_Witness ==
    /\ IsCall("get_recommendations")
    /\ ret.n > 0
    /\ ret.path = "KNOWN"
    /\ NeighborCandidates = {}
    /\ ret.rows = <<>>
    /\ GetPopularProducts(products_df, purchases_df, ret.n) # <<>>

\* the ratings the loaded log holds for (u, i), in log order
CellRatings(u, i) == RatingsOf(purchases_df, u, i)

\* the log in the engine is the file as load_data last found it, and the
\* matrix has its users and items
MatrixShape ==
    /\ IsCall("load_data") => purchases_df = purchases_csv
    /\ DOMAIN user_item_matrix = LogUsers
    /\ \A u \in LogUsers : DOMAIN user_item_matrix[u] = LogItems
    /\ \A u \in LogUsers, i \in LogItems :
          CellRatings(u, i) = <<>> => user_item_matrix[u][i] = Zero

\* C10 as claimed: after any loads the matrix is a function of the log loaded
\* last: rows its user_ids, columns its item_ids, 0 where it has no
\* interaction, else the rating of the only, or of the last, interaction.
C10_LastWriteWins ==
    loaded
        => /\ MatrixShape
           /\ \A u \in LogUsers, i \in LogItems :
                 CellRatings(u, i) # <<>>
                    => user_item_matrix[u][i] =
                          [num |-> CellRatings(u, i)[Len(CellRatings(u, i))].rating,
                           den |-> 1]

\* C10 as amended: ... else the mean of the ratings of all the interactions
\* the log has for (u, i) (the rating itself when there is only one).
C10_MatrixIsMeanPivot ==
    loaded
        => /\ MatrixShape
           /\ \A u \in LogUsers, i \in LogItems :
                 CellRatings(u, i) # <<>>
                    => /\ user_item_matrix[u][i].den > 0
                       /\ user_item_matrix[u][i].num * Len(CellRatings(u, i))
                            = RatingSum(CellRatings(u, i)) * user_item_matrix[u][i].den

\* a loaded log that rates one (user, item) pair twice, differently
C10_Witness ==
    /\ loaded
    /\ IsCall("load_data")
    /\ \E u \in LogUsers, i \in LogItems :
          /\ Len(CellRatings(u, i)) = 2
          /\ CellRatings(u, i)[1].rating # CellRatings(u, i)[2].rating
          /\ user_item_matrix[u][i] # Frac(CellRatings(u, i)[2].rating, 1)

ReadOps ==
    {"find_similar_users", "get_recommendations", "get_popular_products", "get_user_purchases"}

\* the similarity to the target of user v, read off the target's column
SimOf(column, v) == (CHOOSE a \in column : a.user_id = v).sim

\* no user outside T is strictly more similar to the target than one in T
TopOf(column, T) ==
    \A a \in column : a.user_id \notin T
        => \A b \in column : b.user_id \in T => ~SimLess(b.sim, a.sim)

\* l is a list find_similar_users(user_id, num_similar) returns when run on
\* the matrix m: the entries after the first of the column sorted by
\* descending similarity and cut at num_similar + 1.
ReturnedAlone(m, user_id, num_similar, l) ==
    IF user_id \notin DOMAIN m THEN l = <<>>
    ELSE \E column \in {SimilarityColumn(m, user_id)} :
            \E stop \in {SliceStop(num_similar + 1, Cardinality(DOMAIN m))} :
               IF stop = 0 THEN l = <<>>
               ELSE /\ Len(l) = stop - 1
                    /\ Range(l) \subseteq DOMAIN m
                    /\ \A j, k \in DOMAIN l : j # k => l[j] # l[k]
                    /\ \A k \in 1..(Len(l) - 1) :
                          ~SimLess(SimOf(column, l[k]), SimOf(column, l[k + 1]))
                    /\ \E first \in DOMAIN m \ Range(l) :
                          /\ \A k \in DOMAIN l :
                                ~SimLess(SimOf(column, first), SimOf(column, l[k]))
                          /\ TopOf(column, Range(l) \cup {first})

\* users, in ascending order, are the users of a list
\* find_similar_users(user_id) returns when run on the matrix m
NeighborsAlone(m, user_id, users) ==
    IF user_id \notin DOMAIN m THEN users = <<>>
    ELSE \E column \in {SimilarityColumn(m, user_id)} :
            /\ users = Ascending(Range(users))
            /\ Range(users) \subseteq DOMAIN m
            /\ Len(users) + 1 = SliceStop(DefaultNumSimilar + 1, Cardinality(DOMAIN m))
            /\ \E first \in DOMAIN m \ Range(users) :
                  /\ \A k \in DOMAIN users :
                        ~SimLess(SimOf(column, first), SimOf(column, users[k]))
                  /\ TopOf(column, Range(users) \cup {first})

\* What a request run alone on the loaded catalog, log and matrix returns has
\* been returned by the call in ret.
ResultOfLoadedState ==
    /\ IsCall("find_similar_users")
          => ReturnedAlone(PivotTable(purchases_df), ret.user_id, ret.n, ret.users)
    /\ IsCall("get_recommendations")
          => /\ NeighborsAlone(PivotTable(purchases_df), ret.user_id, ret.users)
             /\ ret.rows = GetRecommendations(products_df, purchases_df, ret.user_id,
                                              ret.users, ret.n)
    /\ IsCall("get_popular_products")
          => ret.rows = GetPopularProducts(products_df, purchases_df, ret.n)
    /\ IsCall("get_user_purchases")
          => ret.rows = GetUserPurchases(products_df, purchases_df, ret.user_id)

\* C11: find_similar_users, get_recommendations, get_popular_products and
\* get_user_purchases leave products_df, purchases_df and user_item_matrix
\* unchanged (only load_data writes them), so after one load and any
\* interleaving of read requests the matrix is still the pivot of the loaded
\* log and each request returns what it returns when run alone on that load.
C11_ReadsLeaveEngineUnchanged ==
    /\ [][ret'.op # "load_data" => UNCHANGED Engine]_vars
    /\ [](loaded => /\ user_item_matrix = PivotTable(purchases_df)
                    /\ ResultOfLoadedState)

\* a read returning rows of the loaded log after the files under data/ have
\* been written anew
C11_Witness ==
    /\ loaded
    /\ ret.op \in ReadOps
    /\ purchases_csv # purchases_df
    /\ ret.rows # <<>>
====
